---- MODULE Spec2Model ----
(***************************************************************************)
(* Model of scripts/publish.py: the note-to-post publishing pipeline.      *)
(*                                                                         *)
(* Strings are sequences of one-character strings, so that slugify, the    *)
(* identity suffix of a file name and the six character identity fragment  *)
(* of ensure_unique_slug are computed as the code computes them.           *)
(* Datetimes are microseconds; format_dt keeps whole seconds only, and     *)
(* what is stored in a front matter is that number of seconds.             *)
(* The content tree is a function from slug (directory name) to the        *)
(* bundle stored there: whether index.md is there, its fields and the      *)
(* attachments directory.  The git repository is the staged, committed     *)
(* and pushed copies of that tree.  The note store is what the exporter    *)
(* writes out at the start of a run: file id -> note.                      *)
(***************************************************************************)
EXTENDS Integers, Sequences, FiniteSets, TLC

(***************************************************************************)
(* Bounds of the model.                                                    *)
(***************************************************************************)
MaxRuns == 2
MaxEdits == 1
MaxFails == 1
MaxSec == 2

(***************************************************************************)
(* Program constants.                                                      *)
(***************************************************************************)
MicrosPerSecond == 1000000
IdFragmentLen == 6

CONTROL_TAGS == {"blog", "publish", "published"}
PUBLISH_TAG == "publish"
PUBLISHED_TAG == "published"

(***************************************************************************)
(* Characters.                                                             *)
(***************************************************************************)
LowerLetters ==
    <<"a", "b", "c", "d", "e", "f", "g", "h", "i", "j", "k", "l", "m",
      "n", "o", "p", "q", "r", "s", "t", "u", "v", "w", "x", "y", "z">>

UpperLetters ==
    <<"A", "B", "C", "D", "E", "F", "G", "H", "I", "J", "K", "L", "M",
      "N", "O", "P", "Q", "R", "S", "T", "U", "V", "W", "X", "Y", "Z">>

Digits == {"0", "1", "2", "3", "4", "5", "6", "7", "8", "9"}

LowerAlnum == {LowerLetters[i] : i \in 1..Len(LowerLetters)} \cup Digits
UpperAlnum == {UpperLetters[i] : i \in 1..Len(UpperLetters)}
Alnum == LowerAlnum \cup UpperAlnum

\* unicodedata.normalize("NFKD", ...): the ASCII characters the compatibility
\* decomposition of a character holds, for every character of the Latin-1
\* Supplement that has any.  A string of this module holds no character
\* beyond that block.
Decompositions ==
    <<
      [to |-> <<" ">>, from |-> {" ", "¨", "¯", "´", "¸"}],
      [to |-> <<"1">>, from |-> {"¹"}],
      [to |-> <<"2">>, from |-> {"²"}],
      [to |-> <<"3">>, from |-> {"³"}],
      [to |-> <<"A">>, from |-> {"À", "Á", "Â", "Ã", "Ä", "Å"}],
      [to |-> <<"C">>, from |-> {"Ç"}],
      [to |-> <<"E">>, from |-> {"È", "É", "Ê", "Ë"}],
      [to |-> <<"I">>, from |-> {"Ì", "Í", "Î", "Ï"}],
      [to |-> <<"N">>, from |-> {"Ñ"}],
      [to |-> <<"O">>, from |-> {"Ò", "Ó", "Ô", "Õ", "Ö"}],
      [to |-> <<"U">>, from |-> {"Ù", "Ú", "Û", "Ü"}],
      [to |-> <<"Y">>, from |-> {"Ý"}],
      [to |-> <<"a">>, from |-> {"ª", "à", "á", "â", "ã", "ä", "å"}],
      [to |-> <<"c">>, from |-> {"ç"}],
      [to |-> <<"e">>, from |-> {"è", "é", "ê", "ë"}],
      [to |-> <<"i">>, from |-> {"ì", "í", "î", "ï"}],
      [to |-> <<"n">>, from |-> {"ñ"}],
      [to |-> <<"o">>, from |-> {"º", "ò", "ó", "ô", "õ", "ö"}],
      [to |-> <<"u">>, from |-> {"ù", "ú", "û", "ü"}],
      [to |-> <<"y">>, from |-> {"ý", "ÿ"}],
      [to |-> <<"1", "2">>, from |-> {"½"}],
      [to |-> <<"1", "4">>, from |-> {"¼"}],
      [to |-> <<"3", "4">>, from |-> {"¾"}]
    >>

\* The characters of the Latin-1 Supplement whose compatibility decomposition
\* holds no ASCII character: line 45 drops them.  The first thirty-two are the
\* control characters U+0080 to U+009F.
NonAscii ==
    {"", "", "", "", "", "", "", "", "", "", "", "",
     "", "", "", "", "", "", "", "", "", "", "", "",
     "", "", "", "", "", "", "", "", "¡", "¢", "£", "¤",
     "¥", "¦", "§", "©", "«", "¬", "­", "®", "°", "±", "µ", "¶",
     "·", "»", "¿", "Æ", "Ð", "×", "Ø", "Þ", "ß", "æ", "ð", "÷",
     "ø", "þ"}

\* NFKD, then encode("ascii", "ignore"), of one character.  Every character
\* below U+0080 is its own decomposition and is kept, the control characters
\* included.
AsciiPart(c) ==
    IF \E i \in 1..Len(Decompositions) : c \in Decompositions[i].from
    THEN Decompositions[CHOOSE i \in 1..Len(Decompositions) :
                            c \in Decompositions[i].from].to
    ELSE IF c \in NonAscii THEN <<>>
    ELSE <<c>>

\* Lines 44-45 on a text: the marks a decomposition adds are not ASCII and are
\* dropped, so the result is the ASCII parts of the characters, in order.
RECURSIVE AsciiFold(_)
AsciiFold(text) ==
    IF text = <<>> THEN <<>>
    ELSE AsciiPart(Head(text)) \o AsciiFold(Tail(text))

\* str.lower(), on ASCII text
ToLower(c) ==
    IF c \in UpperAlnum
    THEN LowerLetters[CHOOSE i \in 1..Len(UpperLetters) : UpperLetters[i] = c]
    ELSE c

Min(a, b) == IF a < b THEN a ELSE b

\* re.sub(r"[^a-z0-9]+", "-", value): every maximal run of other characters
\* becomes one hyphen.
RECURSIVE ReplaceRuns(_)
ReplaceRuns(s) ==
    IF s = <<>> THEN <<>>
    ELSE IF Head(s) \in LowerAlnum THEN <<Head(s)>> \o ReplaceRuns(Tail(s))
    ELSE IF Len(s) > 1 /\ s[2] \notin LowerAlnum THEN ReplaceRuns(Tail(s))
    ELSE <<"-">> \o ReplaceRuns(Tail(s))

\* str.strip("-")
RECURSIVE LStripHyphen(_)
LStripHyphen(s) ==
    IF s # <<>> /\ Head(s) = "-" THEN LStripHyphen(Tail(s)) ELSE s

RECURSIVE RStripHyphen(_)
RStripHyphen(s) ==
    IF s # <<>> /\ s[Len(s)] = "-" THEN RStripHyphen(SubSeq(s, 1, Len(s) - 1)) ELSE s

\* re.sub(r"-{2,}", "-", value)
RECURSIVE CollapseHyphens(_)
CollapseHyphens(s) ==
    IF Len(s) < 2 THEN s
    ELSE IF s[1] = "-" /\ s[2] = "-" THEN CollapseHyphens(Tail(s))
    ELSE <<Head(s)>> \o CollapseHyphens(Tail(s))

slugify(text) ==
    LET value == AsciiFold(text)
        lowered == [i \in 1..Len(value) |-> ToLower(value[i])]
    IN  CollapseHyphens(RStripHyphen(LStripHyphen(ReplaceRuns(lowered))))

\* Where "$" matches: at the end of the stem, or before a line break that
\* ends it.
SuffixEnd(stem) ==
    IF stem # <<>> /\ stem[Len(stem)] = "\n" THEN Len(stem) - 1 ELSE Len(stem)

\* re.match(r"(.+)-([A-Za-z0-9]+)$", stem): the positions of a hyphen that has
\* something before it, none of it a line break ("." does not match one),
\* and only alphanumerics, at least one, after it up to where "$" matches.
SuffixStarts(stem) ==
    {i \in 2..(SuffixEnd(stem) - 1) :
        /\ stem[i] = "-"
        /\ \A j \in 1..(i - 1) : stem[j] # "\n"
        /\ \A j \in (i + 1)..SuffixEnd(stem) : stem[j] \in Alnum}

parse_note_id(stem) ==
    IF SuffixStarts(stem) # {}
    THEN LET i == CHOOSE m \in SuffixStarts(stem) :
                      \A n \in SuffixStarts(stem) : n <= m
         IN  SubSeq(stem, i + 1, SuffixEnd(stem))
    ELSE IF slugify(stem) # <<>> THEN slugify(stem) ELSE stem

(***************************************************************************)
(* Datetimes.                                                              *)
(***************************************************************************)
format_dt(dt) == dt \div MicrosPerSecond

parse_dt(value) == value * MicrosPerSecond

(***************************************************************************)
(* The inputs: exported note files.  A file is named "<title>-<id>.md"     *)
(* (the exporter's --filename-format "&title-&id"); `notes` maps the id   *)
(* part of each exported file to what parse_note_markdown reads from it.   *)
(***************************************************************************)
FileIds == {<<"x">>, <<"a", "b", "c", "d", "e", "f", "1">>,
            <<"a", "b", "c", "d", "e", "f", "2">>}

TitleT == <<"T">>
TitleU == <<"U">>
TitleQ == <<"?">>
TitleE == <<"É">>
Titles == {TitleT, TitleU, TitleQ, TitleE}

SlugOverrides == {<<>>, <<"U">>}

TagLists ==
    { <<"blog", "publish">>,
      <<"blog", "published">>,
      <<"blog", "publish", "published">>,
      <<"travel", "blog", "published">>,
      <<"published", "travel">>,
      <<"blog", "travel">> }

Times == {s * MicrosPerSecond + u : s \in 1..MaxSec, u \in {0, 500000}}

\* Link targets of a body, in the order the links appear.  kind is "rel" for a
\* relative path, "url" for http(s)/mailto/data, "anchor" for "#...", "abs" for
\* a path starting with "/".
Rel(d, n) == [kind |-> "rel", dir |-> d, name |-> n]
ImgA == Rel("img", "a.png")
OldA == Rel("old", "a.png")
ImgB == Rel("img", "b.png")
Gone == Rel("img", "gone.png")
Url == [kind |-> "url", dir |-> "", name |-> "https://example.org"]

\* The files that exist on disk under the export directory.
ExistingFiles == {ImgA, OldA, ImgB}

Bodies == { <<>>, <<ImgA>>, <<ImgA, OldA>>, <<ImgB, Url, Gone>> }

NoteVersions ==
    [title : Titles, tags : TagLists, slug_override : SlugOverrides,
     body : Bodies, mtime : Times]

DefaultNote(t) ==
    [title |-> t, tags |-> <<"blog", "publish">>, slug_override |-> <<>>,
     body |-> <<>>, mtime |-> MicrosPerSecond]

\* Initial export sets: every file with the default content and one of two
\* titles, or every file already marked published under one title, or a
\* single file that has any tags and time, or any body, or no file at all.
CollisionExports ==
    [FileIds -> {DefaultNote(TitleT), DefaultNote(TitleU)}]
    \cup {[k \in FileIds |->
              [DefaultNote(TitleT) EXCEPT !.tags = <<"blog", "published">>]]}

SingleExports ==
    {[k \in {<<"x">>} |-> v] :
        v \in {n \in NoteVersions :
                  /\ n.title = TitleT
                  /\ n.slug_override = <<>>
                  /\ \/ n.body = <<>>
                     \/ n.tags = <<"blog", "publish">> /\ n.mtime = MicrosPerSecond}}

InitialExports == CollisionExports \cup SingleExports \cup {<<>>}

\* The versions a note of the store is given between two runs.
EditVersions ==
    [title : {TitleT, TitleU},
     tags : { <<"blog", "publish">>, <<"blog", "published">>,
              <<"blog", "publish", "published">>, <<"published", "travel">> },
     slug_override : SlugOverrides,
     body : { <<>> },
     mtime : {MicrosPerSecond, 2 * MicrosPerSecond}]

Stem(k, note) == note.title \o <<"-">> \o k

NoteId(k, note) == parse_note_id(Stem(k, note))

InList(x, list) == \E i \in 1..Len(list) : list[i] = x

has_publish(note) == InList(PUBLISH_TAG, note.tags)

has_published(note) == InList(PUBLISHED_TAG, note.tags)

(***************************************************************************)
(* State.                                                                  *)
(***************************************************************************)
VARIABLES
    store,           \* the note store: file id -> the note as it exports
    notes,           \* the export directory: file id -> parsed note
    same_export,     \* this run's export is the one the last run read
    tree,            \* CONTENT_DIR: slug -> bundle
    index,           \* git: the staged tree
    head,            \* git: the committed tree
    remote,          \* git: the pushed tree
    pc,              \* position in main
    existing,        \* main's `existing`: note_id -> [slug, date, lastmod]
    remaining,       \* files of markdown_files not yet iterated
    written,
    skipped,
    updated_titles,
    iter,            \* the loop's last iteration: file, outcome, slug, changed
    rc,              \* return codes of this run's external invocations
    outcome,         \* how the last run ended
    notified,        \* titles update_notes_to_published was invoked with in this run
    first_date,      \* note_id -> date of the first bundle written for it
    last_slug,       \* note_id -> slug the identity was last written at
    start_tree,      \* CONTENT_DIR as it was when the first run started
    scan_order,      \* the order rglob lists the files in, when it is fixed
    runs,
    edits,
    fails

vars == <<store, notes, same_export, tree, index, head, remote, pc, existing, remaining, written,
          skipped, updated_titles, iter, rc, outcome, notified, first_date,
          last_slug, start_tree, scan_order, runs, edits, fails>>

Steps == {"export", "add", "diff", "commit", "push", "update"}

NoRc == [s \in Steps |-> "none"]

NoIter == [md_path |-> <<>>, outcome |-> "none", slug |-> <<>>,
           renamed |-> FALSE, changed |-> FALSE]

EmptyTree == [s \in {} |-> 0]

(***************************************************************************)
(* The content tree.                                                       *)
(***************************************************************************)
\* Put that also removes every other bundle recording the same identity.
Put_Exclusive(t, slug, bundle) ==
    [s \in {x \in DOMAIN t : t[x].note_id # bundle.note_id} \cup {slug} |->
        IF s = slug THEN bundle ELSE t[s]]

Put(t, slug, bundle) ==
    [s \in DOMAIN t \cup {slug} |-> IF s = slug THEN bundle ELSE t[s]]

Remove(t, slug) == [s \in DOMAIN t \ {slug} |-> t[s]]

\* The text of index.md: the front matter fields and the body.
IndexMd(bundle) ==
    [title |-> bundle.title, date |-> bundle.date, lastmod |-> bundle.lastmod,
     tags |-> bundle.tags, note_id |-> bundle.note_id, body |-> bundle.body]

RecordedIds(t) == {t[s].note_id : s \in DOMAIN t} \ {<<>>}

\* glob("*/index.md") yields the bundles in no defined order and a later
\* bundle replaces an earlier entry of the same note_id: any bundle recording
\* an identity may be the one the mapping ends with.
load_existing_posts(t) ==
    {[id \in RecordedIds(t) |->
         [slug |-> pick[id], date |-> t[pick[id]].date,
          lastmod |-> t[pick[id]].lastmod]] :
       pick \in {p \in [RecordedIds(t) -> DOMAIN t] :
                    \A id \in RecordedIds(t) : t[p[id]].note_id = id}}

ensure_unique_slug(t, slug, note_id) ==
    IF slug \notin DOMAIN t THEN slug
    ELSE IF t[slug].note_id # <<>> /\ t[slug].note_id # note_id
         THEN slug \o <<"-">> \o SubSeq(note_id, 1, Min(IdFragmentLen, Len(note_id)))
         ELSE slug

(***************************************************************************)
(* Links and attachments.                                                  *)
(***************************************************************************)
is_local_link(target) == target.kind \notin {"url", "anchor"}

\* The targets `replace` rewrites: local, not absolute, resolving to a file
\* that exists.
Rewritten(target) ==
    /\ is_local_link(target)
    /\ target.kind # "abs"
    /\ target \in ExistingFiles

\* rewrite_links: the updated body and the copy list, in body order.
rewrite_links(body) ==
    [body |-> [i \in 1..Len(body) |->
                  IF Rewritten(body[i]) THEN Rel("attachments", body[i].name)
                  ELSE body[i]],
     attachments |-> SelectSeq(body, Rewritten)]

\* The attachments directory after rmtree and the copies in order: one file per
\* destination name, holding the source copied last under that name.
CopyAll(queue) ==
    [n \in {queue[i].name : i \in 1..Len(queue)} |->
        LET last == CHOOSE i \in 1..Len(queue) :
                        /\ queue[i].name = n
                        /\ \A j \in 1..Len(queue) : queue[j].name = n => j <= i
        IN  queue[last]]

NotControl(tag) == tag \notin CONTROL_TAGS

\* write_post: the bundle written for the note, the tree after the write and
\* whether index.md changed.
write_post(t, note, note_id, slug, ex) ==
    LET links == rewrite_links(note.body)
        publish_date == IF note_id \in DOMAIN ex THEN ex[note_id].date
                        ELSE format_dt(note.mtime)
        bundle == [title |-> note.title,
                   date |-> publish_date,
                   lastmod |-> format_dt(note.mtime),
                   tags |-> SelectSeq(note.tags, NotControl),
                   note_id |-> note_id,
                   body |-> links.body,
                   attachments |-> CopyAll(links.attachments),
                   index_md |-> TRUE]
    IN  [tree |-> Put(t, slug, bundle),
         changed |-> IF slug \in DOMAIN t THEN IndexMd(t[slug]) # IndexMd(bundle)
                     ELSE TRUE]

(***************************************************************************)
(* The decisions of main's loop.                                           *)
(***************************************************************************)
\* Eligible without the test of line 394.
Eligible_NoBlogTest(note) == has_publish(note) \/ has_published(note)

Eligible(note) ==
    /\ InList("blog", note.tags)
    /\ has_publish(note) \/ has_published(note)

\* FreshnessSkip without the "not note.has_publish" of line 400.
FreshnessSkip_IgnoresPublish(note, note_id, ex) ==
    /\ has_published(note)
    /\ note_id \in DOMAIN ex
    /\ note.mtime <= parse_dt(ex[note_id].lastmod)

\* FreshnessSkip with "<" for the "<=" of line 401.
FreshnessSkip_Strict(note, note_id, ex) ==
    /\ has_published(note)
    /\ ~has_publish(note)
    /\ note_id \in DOMAIN ex
    /\ note.mtime < parse_dt(ex[note_id].lastmod)

FreshnessSkip(note, note_id, ex) ==
    /\ has_published(note)
    /\ ~has_publish(note)
    /\ note_id \in DOMAIN ex
    /\ note.mtime <= parse_dt(ex[note_id].lastmod)

DesiredSlug(note, note_id, ex) ==
    LET s == IF note.slug_override # <<>> THEN slugify(note.slug_override)
             ELSE IF note_id \in DOMAIN ex THEN ex[note_id].slug
             ELSE slugify(note.title)
    IN  IF s = <<>> THEN note_id ELSE s

Renames(t, note, note_id, ex, slug) ==
    /\ note_id \in DOMAIN ex
    /\ note.slug_override # <<>>
    /\ slug # ex[note_id].slug
    /\ ex[note_id].slug \in DOMAIN t
    /\ slug \notin DOMAIN t

Rename(t, old, new) == Put(Remove(t, old), new, t[old])

(***************************************************************************)
(* Initial state: a note store and its export, an empty content tree, an   *)
(* empty repository.                                                       *)
(***************************************************************************)
Init ==
    /\ store \in InitialExports
    /\ notes = store
    /\ same_export = TRUE
    /\ tree = EmptyTree
    /\ index = EmptyTree
    /\ head = EmptyTree
    /\ remote = EmptyTree
    /\ pc = "idle"
    /\ existing = EmptyTree
    /\ remaining = {}
    /\ written = 0
    /\ skipped = 0
    /\ updated_titles = <<>>
    /\ iter = NoIter
    /\ rc = NoRc
    /\ outcome = "none"
    /\ notified = {}
    /\ first_date = EmptyTree
    /\ last_slug = EmptyTree
    /\ start_tree = EmptyTree
    /\ scan_order = <<>>
    /\ runs = 0
    /\ edits = 0
    /\ fails = 0

(***************************************************************************)
(* The environment: between two runs a note is added to the note store or  *)
(* an existing one is given any title, tags, slug line, body and time.     *)
(* The export directory shows it when the next run has exported.           *)
(***************************************************************************)
EditNote(k, v) ==
    /\ pc = "idle"
    /\ runs >= 1
    /\ runs < MaxRuns
    /\ edits < MaxEdits
    /\ store' = [j \in DOMAIN store \cup {k} |-> IF j = k THEN v ELSE store[j]]
    /\ edits' = edits + 1
    /\ UNCHANGED <<notes, same_export, tree, index, head, remote, pc,
                   existing, remaining, written, skipped, updated_titles,
                   iter, rc, outcome, notified, first_date, last_slug,
                   start_tree, scan_order, runs, fails>>

(***************************************************************************)
(* main, lines 376-388: ensure_export, load_existing_posts, the file list. *)
(***************************************************************************)
ExportFails ==
    /\ pc = "idle"
    /\ runs < MaxRuns
    /\ fails < MaxFails
    /\ fails' = fails + 1
    /\ rc' = [NoRc EXCEPT !["export"] = "fail"]
    /\ outcome' = "abort_export"
    /\ notified' = {}
    /\ UNCHANGED <<store, notes, same_export, tree, index, head, remote, pc,
                   existing, remaining, written, skipped, updated_titles,
                   iter, first_date, last_slug, start_tree, scan_order, runs,
                   edits>>

\* ensure_export writes the note store out; a run reads that export.
StartRun ==
    /\ pc = "idle"
    /\ runs < MaxRuns
    /\ runs' = runs + 1
    /\ rc' = [NoRc EXCEPT !["export"] = "ok"]
    /\ existing' \in load_existing_posts(tree)
    /\ written' = 0
    /\ skipped' = 0
    /\ updated_titles' = <<>>
    /\ iter' = NoIter
    /\ notified' = {}
    /\ notes' = store
    /\ same_export' = (store = notes)
    /\ remaining' = DOMAIN store
    /\ IF DOMAIN store = {}
       THEN /\ pc' = "idle"
            /\ outcome' = "no_files"
       ELSE /\ pc' = "loop"
            /\ outcome' = "running"
    /\ UNCHANGED <<store, tree, index, head, remote, first_date, last_slug,
                   start_tree, scan_order, edits, fails>>

(***************************************************************************)
(* main, lines 390-425: one iteration of the loop, for the file k.         *)
(***************************************************************************)
ProcessNote(k) ==
    /\ pc = "loop"
    /\ k \in remaining
    /\ remaining' = remaining \ {k}
    /\ LET note == notes[k]
           note_id == NoteId(k, note)
       IN  IF ~Eligible(note)
           THEN /\ iter' = [NoIter EXCEPT !.md_path = k, !.outcome = "excluded"]
                /\ UNCHANGED <<tree, written, skipped, updated_titles,
                               first_date, last_slug>>
           ELSE IF FreshnessSkip(note, note_id, existing)
           THEN /\ skipped' = skipped + 1
                /\ iter' = [NoIter EXCEPT !.md_path = k, !.outcome = "skipped"]
                /\ UNCHANGED <<tree, written, updated_titles, first_date,
                               last_slug>>
           ELSE LET slug == ensure_unique_slug(
                                tree, DesiredSlug(note, note_id, existing), note_id)
                    renames == Renames(tree, note, note_id, existing, slug)
                    moved == IF renames
                             THEN Rename(tree, existing[note_id].slug, slug)
                             ELSE tree
                    post == write_post(moved, note, note_id, slug, existing)
                IN  /\ tree' = post.tree
                    /\ written' = written + 1
                    /\ updated_titles' =
                           IF has_publish(note)
                           THEN Append(updated_titles, note.title)
                           ELSE updated_titles
                    /\ iter' = [md_path |-> k, outcome |-> "written",
                                slug |-> slug, renamed |-> renames,
                                changed |-> post.changed]
                    /\ first_date' =
                           IF note_id \in DOMAIN first_date THEN first_date
                           ELSE [i \in DOMAIN first_date \cup {note_id} |->
                                    IF i = note_id THEN post.tree[slug].date
                                    ELSE first_date[i]]
                    /\ last_slug' =
                           [i \in DOMAIN last_slug \cup {note_id} |->
                               IF i = note_id THEN slug ELSE last_slug[i]]
                    /\ UNCHANGED skipped
    /\ UNCHANGED <<store, notes, same_export, index, head, remote, pc,
                   existing, rc, outcome, notified, start_tree, scan_order,
                   runs, edits, fails>>

(***************************************************************************)
(* main, lines 427-440: the report, git and the source-of-truth update.    *)
(***************************************************************************)
\* The process ends: main's locals are gone.
EndRun(how) ==
    /\ pc' = "idle"
    /\ outcome' = how
    /\ existing' = EmptyTree
    /\ updated_titles' = <<>>
    /\ iter' = NoIter

NoMatch ==
    /\ pc = "loop"
    /\ remaining = {}
    /\ written = 0
    /\ EndRun("no_match")
    /\ UNCHANGED <<store, notes, same_export, tree, index, head, remote,
                   remaining, written, skipped, rc, notified, first_date,
                   last_slug, start_tree, scan_order, runs, edits, fails>>

\* What git add stages of a content tree: files.  A bundle directory that
\* holds neither index.md nor an attachment is not staged.
HoldsFile(bundle) == bundle.index_md \/ DOMAIN bundle.attachments # {}

Staged(t) == [s \in {x \in DOMAIN t : HoldsFile(t[x])} |-> t[s]]

\* git add: its return code is not looked at.
GitAdd ==
    /\ pc = "loop"
    /\ remaining = {}
    /\ written # 0
    /\ pc' = "diff"
    /\ \/ /\ index' = Staged(tree)
          /\ rc' = [rc EXCEPT !["add"] = "ok"]
          /\ UNCHANGED fails
       \/ /\ fails < MaxFails
          /\ fails' = fails + 1
          /\ rc' = [rc EXCEPT !["add"] = "fail"]
          /\ UNCHANGED index
    /\ UNCHANGED <<store, notes, same_export, tree, head, remote, existing,
                   remaining, written, skipped, updated_titles, iter, outcome,
                   notified, first_date, last_slug, start_tree, scan_order,
                   runs, edits>>

\* git diff --cached --quiet: 0 when nothing is staged, 1 when something is;
\* any other return code is taken as "something is staged" too.
GitDiff ==
    /\ pc = "diff"
    /\ \/ /\ rc' = [rc EXCEPT !["diff"] = IF index = head THEN "ok" ELSE "differs"]
          /\ pc' = IF index = head THEN "update" ELSE "commit"
          /\ UNCHANGED fails
       \/ /\ fails < MaxFails
          /\ fails' = fails + 1
          /\ rc' = [rc EXCEPT !["diff"] = "fail"]
          /\ pc' = "commit"
    /\ UNCHANGED <<store, notes, same_export, tree, index, head, remote,
                   existing, remaining, written, skipped, updated_titles,
                   iter, outcome, notified, first_date, last_slug, start_tree,
                   scan_order, runs, edits>>

\* git commit: its return code is not looked at.  With nothing staged it
\* fails by itself.
GitCommit ==
    /\ pc = "commit"
    /\ pc' = "push"
    /\ \/ /\ index # head
          /\ head' = index
          /\ rc' = [rc EXCEPT !["commit"] = "ok"]
          /\ UNCHANGED fails
       \/ /\ index = head
          /\ rc' = [rc EXCEPT !["commit"] = "fail"]
          /\ UNCHANGED <<head, fails>>
       \/ /\ index # head
          /\ fails < MaxFails
          /\ fails' = fails + 1
          /\ rc' = [rc EXCEPT !["commit"] = "fail"]
          /\ UNCHANGED head
    /\ UNCHANGED <<store, notes, same_export, tree, index, remote, existing,
                   remaining, written, skipped, updated_titles, iter, outcome,
                   notified, first_date, last_slug, start_tree, scan_order,
                   runs, edits>>

\* GitPush without the SystemExit of line 438.
GitPush_ContinuesOnFailure ==
    /\ pc = "push"
    /\ pc' = "update"
    /\ \/ /\ remote' = head
          /\ rc' = [rc EXCEPT !["push"] = "ok"]
          /\ UNCHANGED fails
       \/ /\ fails < MaxFails
          /\ fails' = fails + 1
          /\ rc' = [rc EXCEPT !["push"] = "fail"]
          /\ UNCHANGED remote
    /\ UNCHANGED <<store, notes, same_export, tree, index, head, existing,
                   remaining, written, skipped, updated_titles, iter, outcome,
                   notified, first_date, last_slug, start_tree, scan_order,
                   runs, edits>>

GitPush ==
    /\ pc = "push"
    /\ \/ /\ remote' = head
          /\ rc' = [rc EXCEPT !["push"] = "ok"]
          /\ pc' = "update"
          /\ UNCHANGED <<fails, outcome>>
          /\ UNCHANGED <<existing, updated_titles, iter>>
       \/ /\ fails < MaxFails
          /\ fails' = fails + 1
          /\ rc' = [rc EXCEPT !["push"] = "fail"]
          /\ EndRun("abort_push")
          /\ UNCHANGED remote
    /\ UNCHANGED <<store, notes, same_export, tree, index, head, remaining,
                   written, skipped, notified, first_date, last_slug,
                   start_tree, scan_order, runs, edits>>

\* The titles the script looks for: `targetTitles contains noteName`.
Titled(titles) == {titles[i] : i \in 1..Len(titles)}

\* replace_text(noteBody, "#publish", "#published") on one tag: the text is
\* cut at every "#publish" and joined with "#published", so what follows
\* "#publish" in a longer tag stays.  No tag of a note contains "publish"
\* but these.
replace_text(tag) ==
    CASE tag = "publish" -> "published"
      [] tag = "published" -> "publisheded"
      [] tag = "publisheded" -> "publishededed"
      [] OTHER -> tag

\* `noteBody contains "#publish"`
ContainsPublish(note) ==
    \E i \in 1..Len(note.tags) : replace_text(note.tags[i]) # note.tags[i]

\* The notes the script rewrites: named in argv and containing "#publish".
Targets(st, titles) ==
    {k \in DOMAIN st : st[k].title \in Titled(titles) /\ ContainsPublish(st[k])}

\* The store after the script has set the body of the notes of S.
Marked(st, S) ==
    [k \in DOMAIN st |->
        IF k \in S
        THEN [st[k] EXCEPT
                 !.tags = [i \in 1..Len(st[k].tags) |-> replace_text(st[k].tags[i])]]
        ELSE st[k]]

\* update_notes_to_published(updated_titles), then the report.  A script
\* that fails has rewritten any number of the notes it was to rewrite.
UpdateNotes ==
    /\ pc = "update"
    /\ \/ /\ updated_titles = <<>>
          /\ EndRun("reported")
          /\ UNCHANGED <<store, rc, notified, fails>>
       \/ /\ updated_titles # <<>>
          /\ store' = Marked(store, Targets(store, updated_titles))
          /\ notified' = Titled(updated_titles)
          /\ rc' = [rc EXCEPT !["update"] = "ok"]
          /\ EndRun("reported")
          /\ UNCHANGED fails
       \/ /\ updated_titles # <<>>
          /\ fails < MaxFails
          /\ fails' = fails + 1
          /\ \E S \in SUBSET Targets(store, updated_titles) :
                 store' = Marked(store, S)
          /\ notified' = Titled(updated_titles)
          /\ rc' = [rc EXCEPT !["update"] = "fail"]
          /\ EndRun("abort_update")
    /\ UNCHANGED <<notes, same_export, tree, index, head, remote, remaining,
                   written, skipped, first_date, last_slug, start_tree,
                   scan_order, runs, edits>>

Next ==
    \/ \E k \in FileIds : \E v \in EditVersions : EditNote(k, v)
    \/ ExportFails
    \/ StartRun
    \/ \E k \in FileIds : ProcessNote(k)
    \/ NoMatch
    \/ GitAdd
    \/ GitDiff
    \/ GitCommit
    \/ GitPush
    \/ UpdateNotes

Spec == Init /\ [][Next]_vars

(***************************************************************************)
(* Interrupted runs.  A run is killed inside the loop of lines 390-425 and *)
(* the program is run again on the same export directory, rglob listing    *)
(* the files in the same order.                                            *)
(***************************************************************************)
\* The content tree after the iteration of lines 390-425 for the file k.
TreeAfter(t, ex, k, note) ==
    LET note_id == NoteId(k, note)
        slug == ensure_unique_slug(t, DesiredSlug(note, note_id, ex), note_id)
        moved == IF Renames(t, note, note_id, ex, slug)
                 THEN Rename(t, ex[note_id].slug, slug)
                 ELSE t
    IN  IF ~Eligible(note) \/ FreshnessSkip(note, note_id, ex) THEN t
        ELSE write_post(moved, note, note_id, slug, ex).tree

\* The content tree after the loop has iterated over the files of `order`.
RECURSIVE RunLoop(_, _, _, _)
RunLoop(t, ex, export, order) ==
    IF order = <<>> THEN t
    ELSE RunLoop(TreeAfter(t, ex, Head(order), export[Head(order)]),
                 ex, export, Tail(order))

\* A bundle directory without index.md: no field is read from it.
NoIndex(attachments) ==
    [title |-> <<>>, date |-> 0, lastmod |-> 0, tags |-> <<>>,
     note_id |-> <<>>, body |-> <<>>, attachments |-> attachments,
     index_md |-> FALSE]

\* A bundle directory whose index.md is empty or cut inside the front
\* matter: parse_front_matter finds no closing line and no field is read
\* from it either.
UnreadableIndex(attachments) ==
    [NoIndex(attachments) EXCEPT !.index_md = TRUE]

\* A destination file shutil.copy2 has created and not filled: it holds the
\* content of no source file.
PartialFile(n) == [kind |-> "partial", dir |-> "", name |-> n]

\* The end of a body that write_text has not written whole.
CutMark == [kind |-> "cut", dir |-> "", name |-> ""]

\* The attachments directory when the process is killed inside lines
\* 262-267: rmtree has removed some of the old files, or the old directory
\* is gone and the first n copies are done, the next one begun or not.
AttachmentsInWrite(old, queue) ==
    {[n \in S |-> old[n]] : S \in SUBSET DOMAIN old}
    \cup {CopyAll(SubSeq(queue, 1, n)) : n \in 0..Len(queue)}
    \cup {Put(CopyAll(SubSeq(queue, 1, n)), queue[n + 1].name,
              PartialFile(queue[n + 1].name)) : n \in 0..(Len(queue) - 1)}

\* index.md when the process is killed inside the write_text of line 289:
\* the file was truncated and holds a prefix of the content.  A prefix that
\* ends inside the front matter is unreadable; one that ends inside the body
\* reads as a body cut short; one that ends at a line break of the body
\* reads as the whole index.md of a note with that shorter body.
IndexInWrite(bundle) ==
    {UnreadableIndex(bundle.attachments)}
    \cup {[bundle EXCEPT !.body = SubSeq(bundle.body, 1, m) \o <<CutMark>>] :
             m \in 0..Len(bundle.body)}
    \cup {[bundle EXCEPT !.body = SubSeq(bundle.body, 1, m)] :
             m \in 0..Len(bundle.body)}

\* The orders rglob can list the files of a set in.
Orders(S) ==
    {o \in [1..Cardinality(S) -> S] : \A i, j \in DOMAIN o : o[i] = o[j] => i = j}

\* The content trees the first run starts from: empty, or what a complete
\* earlier run left for the note x.
EarlierExports ==
    {[k \in {<<"x">>} |-> v] :
        v \in {DefaultNote(TitleT), [DefaultNote(TitleT) EXCEPT !.body = <<ImgA>>]}}

StartTrees ==
    {EmptyTree} \cup
    {RunLoop(EmptyTree, EmptyTree, e, << <<"x">> >>) : e \in EarlierExports}

\* The export sets of an interrupted run: the note x in any of these
\* versions, and any of the two other notes, with the same title.
CrashVersions ==
    {n \in NoteVersions :
        /\ n.title = TitleT
        /\ n.tags \in {<<"blog", "publish">>, <<"blog", "published">>}
        /\ n.body \in {<<>>, <<ImgA>>, <<ImgB, Url, Gone>>}
        /\ n.mtime \in {MicrosPerSecond, 2 * MicrosPerSecond}}

CrashExports ==
    {[k \in {<<"x">>} \cup others |->
         IF k = <<"x">> THEN v ELSE DefaultNote(TitleT)] :
       v \in CrashVersions, others \in SUBSET (FileIds \ {<<"x">>})}

\* What the earlier run recorded of each identity of a tree that holds
\* every identity once.
RecordedAt(t, field) ==
    [id \in RecordedIds(t) |->
        LET s == CHOOSE x \in DOMAIN t : t[x].note_id = id
        IN  IF field = "slug" THEN s ELSE t[s][field]]

\* The earlier run has staged, committed and pushed the tree it left.
CrashInit ==
    /\ store \in CrashExports
    /\ notes = store
    /\ same_export = TRUE
    /\ start_tree \in StartTrees
    /\ tree = start_tree
    /\ scan_order \in Orders(DOMAIN notes)
    /\ index = start_tree
    /\ head = start_tree
    /\ remote = start_tree
    /\ pc = "idle"
    /\ existing = EmptyTree
    /\ remaining = {}
    /\ written = 0
    /\ skipped = 0
    /\ updated_titles = <<>>
    /\ iter = NoIter
    /\ rc = NoRc
    /\ outcome = "none"
    /\ notified = {}
    /\ first_date = RecordedAt(start_tree, "date")
    /\ last_slug = RecordedAt(start_tree, "slug")
    /\ runs = 0
    /\ edits = 0
    /\ fails = 0

\* The file the loop iterates over next.
NextFile ==
    scan_order[CHOOSE i \in 1..Len(scan_order) :
                   /\ scan_order[i] \in remaining
                   /\ \A j \in 1..(i - 1) : scan_order[j] \notin remaining]

ProcessInOrder ==
    /\ pc = "loop"
    /\ remaining # {}
    /\ ProcessNote(NextFile)

\* The first run is killed between two iterations, before the first one or
\* after the last one.
InterruptBetweenNotes ==
    /\ pc = "loop"
    /\ runs = 1
    /\ EndRun("interrupted")
    /\ UNCHANGED <<store, notes, same_export, tree, index, head, remote,
                   remaining, written, skipped, rc, notified, first_date,
                   last_slug, start_tree, scan_order, runs, edits, fails>>

\* The first run is killed after the rename of line 420, before write_post.
InterruptAfterRename ==
    /\ pc = "loop"
    /\ runs = 1
    /\ remaining # {}
    /\ LET note == notes[NextFile]
           note_id == NoteId(NextFile, note)
           slug == ensure_unique_slug(
                       tree, DesiredSlug(note, note_id, existing), note_id)
       IN  /\ Eligible(note)
           /\ ~FreshnessSkip(note, note_id, existing)
           /\ Renames(tree, note, note_id, existing, slug)
           /\ tree' = Rename(tree, existing[note_id].slug, slug)
    /\ EndRun("interrupted")
    /\ UNCHANGED <<store, notes, same_export, index, head, remote, remaining,
                   written, skipped, rc, notified, first_date, last_slug,
                   start_tree, scan_order, runs, edits, fails>>

\* The first run is killed inside write_post, before index.md is written:
\* the bundle directory exists and the attachments directory is being
\* removed or filled.  A bundle that was there keeps its index.md.
InterruptInWrite ==
    /\ pc = "loop"
    /\ runs = 1
    /\ remaining # {}
    /\ LET note == notes[NextFile]
           note_id == NoteId(NextFile, note)
           slug == ensure_unique_slug(
                       tree, DesiredSlug(note, note_id, existing), note_id)
           moved == IF Renames(tree, note, note_id, existing, slug)
                    THEN Rename(tree, existing[note_id].slug, slug)
                    ELSE tree
           queue == rewrite_links(note.body).attachments
           old == IF slug \in DOMAIN moved THEN moved[slug].attachments
                  ELSE <<>>
       IN  /\ Eligible(note)
           /\ ~FreshnessSkip(note, note_id, existing)
           /\ \E files \in AttachmentsInWrite(old, queue) :
                  tree' = Put(moved, slug,
                              IF slug \in DOMAIN moved
                              THEN [moved[slug] EXCEPT !.attachments = files]
                              ELSE NoIndex(files))
    /\ EndRun("interrupted")
    /\ UNCHANGED <<store, notes, same_export, index, head, remote, remaining,
                   written, skipped, rc, notified, first_date, last_slug,
                   start_tree, scan_order, runs, edits, fails>>

\* The first run is killed inside the write_text of line 289: the copies
\* are done and index.md holds a part of the new content.
InterruptInIndexWrite ==
    /\ pc = "loop"
    /\ runs = 1
    /\ remaining # {}
    /\ LET note == notes[NextFile]
           note_id == NoteId(NextFile, note)
           slug == ensure_unique_slug(
                       tree, DesiredSlug(note, note_id, existing), note_id)
           moved == IF Renames(tree, note, note_id, existing, slug)
                    THEN Rename(tree, existing[note_id].slug, slug)
                    ELSE tree
           whole == write_post(moved, note, note_id, slug, existing).tree[slug]
       IN  /\ Eligible(note)
           /\ ~FreshnessSkip(note, note_id, existing)
           /\ \E bundle \in IndexInWrite(whole) :
                  tree' = Put(moved, slug, bundle)
    /\ EndRun("interrupted")
    /\ UNCHANGED <<store, notes, same_export, index, head, remote, remaining,
                   written, skipped, rc, notified, first_date, last_slug,
                   start_tree, scan_order, runs, edits, fails>>

CrashNext ==
    \/ StartRun
    \/ ProcessInOrder
    \/ InterruptBetweenNotes
    \/ InterruptAfterRename
    \/ InterruptInWrite
    \/ InterruptInIndexWrite

CrashSpec == CrashInit /\ [][CrashNext]_vars

(***************************************************************************)
(* Properties.                                                             *)
(***************************************************************************)
Iterates(k) == pc = "loop" /\ k \in remaining /\ k \notin remaining'

InLoopOrAfter == pc # "idle"

IterNote == notes[iter.md_path]

IterId == NoteId(iter.md_path, IterNote)

\* C1: a write at a slug never replaces the bundle of another identity: the
\* bundle at a slug that existed before a step records the same identity
\* after it.
C1_SlugHoldsOneIdentity ==
    [][\A s \in DOMAIN tree \cap DOMAIN tree' :
           tree'[s].note_id = tree[s].note_id]_vars

\* C2: every bundle records, as its publish date, the date of the first
\* bundle ever written for its identity.
C2_PublishDateImmutable ==
    \A s \in DOMAIN tree : tree[s].date = first_date[tree[s].note_id]

\* C3: in the second run on an export set that is the one the first run
\* read (no note was edited, none was rewritten by the update script), no
\* write changes an index file.
C3_SecondRunChangesNothing ==
    ( /\ runs = 2
      /\ edits = 0
      /\ same_export
      /\ InLoopOrAfter
      /\ iter.outcome = "written" )
        => ~iter.changed

\* C4: each note identity is recorded in at most one bundle directory.
C4_OneBundlePerIdentity ==
    \A s1, s2 \in DOMAIN tree :
        tree[s1].note_id = tree[s2].note_id => s1 = s2

\* C5: in the second run on the export set the first run read, a note that
\* carries 'blog' and 'published' but not 'publish' (the first run wrote it)
\* takes the freshness skip, whatever its modification time.
C5_UnchangedNoteSkipped ==
    ( /\ runs = 2
      /\ edits = 0
      /\ same_export
      /\ InLoopOrAfter
      /\ iter.outcome # "none"
      /\ InList("blog", IterNote.tags)
      /\ InList("published", IterNote.tags)
      /\ ~InList("publish", IterNote.tags) )
        => iter.outcome = "skipped"

\* C6, as stated: the iteration for a note that carries 'published' and not
\* 'publish', whose identity has a prior record and whose modification time
\* is not later than the record's lastmod, adds one to skipped and leaves
\* the content tree (index files, attachments, directory names) as it was.
C6_FreshnessSkip ==
    [][\A k \in FileIds :
           ( /\ Iterates(k)
             /\ InList("published", notes[k].tags)
             /\ ~InList("publish", notes[k].tags)
             /\ NoteId(k, notes[k]) \in DOMAIN existing
             /\ notes[k].mtime
                    <= existing[NoteId(k, notes[k])].lastmod * MicrosPerSecond )
               => /\ tree' = tree
                  /\ skipped' = skipped + 1
                  /\ written' = written
                  /\ updated_titles' = updated_titles
                  /\ ~iter'.renamed]_vars

\* C6, amended: the same for a note that also carries 'blog'.  A note
\* without 'blog' that meets the conditions is excluded before the freshness
\* rule is looked at: it causes no write and no rename either, and is not
\* counted as skipped.
C6_FreshnessSkipOfBlogNote ==
    [][\A k \in FileIds :
           ( /\ Iterates(k)
             /\ InList("published", notes[k].tags)
             /\ ~InList("publish", notes[k].tags)
             /\ NoteId(k, notes[k]) \in DOMAIN existing
             /\ notes[k].mtime
                    <= existing[NoteId(k, notes[k])].lastmod * MicrosPerSecond )
               => /\ tree' = tree
                  /\ written' = written
                  /\ updated_titles' = updated_titles
                  /\ ~iter'.renamed
                  /\ skipped' = IF InList("blog", notes[k].tags)
                                THEN skipped + 1 ELSE skipped]_vars

\* A freshness skip has happened in a run, and a note without 'blog' that
\* meets the conditions of the freshness rule has been passed over.
C6_Witness ==
    /\ InLoopOrAfter
    /\ skipped > 0
    /\ iter.outcome = "excluded"
    /\ InList("published", IterNote.tags)
    /\ ~InList("publish", IterNote.tags)
    /\ IterId \in DOMAIN existing
    /\ IterNote.mtime <= existing[IterId].lastmod * MicrosPerSecond

\* C7: the content tree changes only in the iteration of a note that carries
\* 'blog' and one of 'publish' and 'published'; the iteration of any other
\* note leaves the tree, both counts and the collected titles as they were.
C7_EligibilityFilter ==
    [][/\ \A k \in FileIds :
              ( /\ Iterates(k)
                /\ ~( /\ InList("blog", notes[k].tags)
                      /\ \/ InList("publish", notes[k].tags)
                         \/ InList("published", notes[k].tags) ) )
                => /\ tree' = tree
                   /\ written' = written
                   /\ skipped' = skipped
                   /\ updated_titles' = updated_titles
       /\ tree' # tree =>
              \E k \in FileIds :
                  /\ Iterates(k)
                  /\ InList("blog", notes[k].tags)
                  /\ \/ InList("publish", notes[k].tags)
                     \/ InList("published", notes[k].tags)]_vars

\* A note failing the filter has been iterated over, after a write.
C7_Witness == InLoopOrAfter /\ iter.outcome = "excluded" /\ tree # EmptyTree

\* The existing local files a body references.
Referenced(body) ==
    {f \in ExistingFiles : \E i \in 1..Len(body) : body[i] = f}

\* C8: after a write the attachments directory of the bundle holds exactly
\* the distinct existing local files the note's body references.
C8_AttachmentsComplete ==
    (InLoopOrAfter /\ iter.outcome = "written")
        => LET dir == tree[iter.slug].attachments
           IN  /\ Cardinality(DOMAIN dir) = Cardinality(Referenced(IterNote.body))
               /\ {dir[n] : n \in DOMAIN dir} = Referenced(IterNote.body)

\* C9: a note with a prior record and no slug override is written at the
\* slug of that record.
C9_IdentityStability ==
    ( /\ InLoopOrAfter
      /\ iter.outcome = "written"
      /\ IterNote.slug_override = <<>>
      /\ IterId \in DOMAIN existing )
        => iter.slug = existing[IterId].slug

\* C10: once an external invocation of the run has returned a failure, the
\* run is over and has ended as aborted.
C10_ExternalFailureIsFatal ==
    (\E s \in Steps : rc[s] = "fail")
        => /\ pc = "idle"
           /\ outcome \in {"abort_export", "abort_push", "abort_update"}

\* C11: when a run has ended while the committed tree is not the pushed tree,
\* on an export set that was never edited, that run has invoked push: commits
\* left unpushed by an earlier push failure are pushed again by the next run.
C11_PushRetried ==
    ( /\ runs >= 2
      /\ edits = 0
      /\ pc = "idle"
      /\ outcome \in {"reported", "no_match", "abort_push", "abort_update"}
      /\ head # remote )
        => rc["push"] # "none"

\* C12: at the end of the loop every identity that had a bundle recording it
\* when the run started still has one.
C12_NoImplicitDeletion ==
    (pc \in {"diff", "commit", "push", "update"})
        => DOMAIN existing \subseteq RecordedIds(tree)

\* C13: a note without a slug override whose identity was written before
\* is written at the slug it was last written at: the note that took the
\* unqualified slug keeps it, and the notes that took qualified slugs keep
\* theirs, in whatever order a later run iterates.
C13_FirstWriterWins ==
    [][\A k \in FileIds :
           ( /\ Iterates(k)
             /\ iter'.outcome = "written"
             /\ notes[k].slug_override = <<>>
             /\ NoteId(k, notes[k]) \in DOMAIN last_slug )
               => iter'.slug = last_slug[NoteId(k, notes[k])]]_vars

\* The step invokes the source-of-truth update script.
UpdateInvoked == rc["update"] = "none" /\ rc'["update"] # "none"

\* The titles of the exported notes that carry 'blog' and 'publish'.
ReadyTitles ==
    {notes[k].title :
        k \in {j \in DOMAIN notes :
                  InList("blog", notes[j].tags) /\ InList("publish", notes[j].tags)}}

\* C14: the source-of-truth update is invoked only after the loop is over
\* and, when a commit was attempted, after push returned success; it is never
\* invoked in a run whose push failed; and it is invoked with titles of
\* written notes that carried 'publish' only.
C14_StepOrdering ==
    [][/\ UpdateInvoked =>
              /\ remaining = {}
              /\ written > 0
              /\ rc["add"] # "none"
              /\ rc["diff"] # "none"
              /\ rc["commit"] # "none" => rc["push"] = "ok"
              /\ notified' \subseteq ReadyTitles
       /\ rc'["push"] = "fail" => rc'["update"] = "none"]_vars

\* The update was invoked after a commit and a successful push.
C14_Witness ==
    rc["commit"] = "ok" /\ rc["push"] = "ok" /\ rc["update"] = "ok" /\ notified # {}

\* C15: when the source-of-truth update has been invoked for some titles, in
\* a run whose staging and commit did not fail, the bundles of those titles
\* are in the pushed tree as they are in the content tree.
C15_NotifiedOnlyWhenPushed ==
    ( /\ pc = "idle"
      /\ notified # {}
      /\ rc["add"] = "ok"
      /\ rc["commit"] # "fail" )
        => \A s \in DOMAIN tree :
               tree[s].title \in notified
                   => s \in DOMAIN remote /\ remote[s] = tree[s]

\* The files of this run's export set the loop has iterated over.
Handled == DOMAIN notes \ remaining

PassedFilter(k) ==
    /\ InList("blog", notes[k].tags)
    /\ InList("publish", notes[k].tags) \/ InList("published", notes[k].tags)

\* C16: in a run, written + skipped is the number of iterated notes that
\* passed the eligibility filter, the collected titles are those of the
\* iterated notes that passed it carrying 'publish', one entry per note, and
\* a note carrying 'publish' is never skipped.
C16_PerNoteAggregation ==
    (pc # "idle")
        => /\ written + skipped = Cardinality({k \in Handled : PassedFilter(k)})
           /\ Len(updated_titles) =
                  Cardinality({k \in Handled :
                                  PassedFilter(k) /\ InList("publish", notes[k].tags)})
           /\ Titled(updated_titles) =
                  {notes[k].title :
                      k \in {j \in Handled :
                                PassedFilter(j) /\ InList("publish", notes[j].tags)}}
           /\ iter.outcome = "skipped" => ~InList("publish", IterNote.tags)
           /\ iter.outcome = "excluded" => ~PassedFilter(iter.md_path)

\* A run has written a note that carries both 'publish' and 'published' and
\* has a prior record not older than the note.
C16_Witness ==
    /\ pc # "idle"
    /\ iter.outcome = "written"
    /\ InList("publish", IterNote.tags)
    /\ InList("published", IterNote.tags)
    /\ IterId \in DOMAIN existing
    /\ IterNote.mtime <= existing[IterId].lastmod * MicrosPerSecond

\* C17: a run ends with the 'no matching notes' message only when no
\* exported note passed the eligibility filter.
C17_NoMatchOnlyWithoutEligible ==
    [][(pc = "loop" /\ outcome' = "no_match")
           => \A k \in DOMAIN notes : ~PassedFilter(k)]_vars

\* C19: the iteration of a note leaves every bundle directory as it was,
\* except the one at the slug it writes and, when it renames, the one at the
\* slug of the prior record; the iteration of an excluded or skipped note
\* leaves the whole content tree as it was.
C19_Frame ==
    [][\A k \in FileIds :
           Iterates(k) =>
               /\ iter'.outcome \in {"excluded", "skipped"} => tree' = tree
               /\ iter'.outcome = "written" =>
                      \A s \in DOMAIN tree \cup DOMAIN tree' :
                          \/ s = iter'.slug
                          \/ /\ iter'.renamed
                             /\ s = existing[NoteId(k, notes[k])].slug
                          \/ /\ s \in DOMAIN tree
                             /\ s \in DOMAIN tree'
                             /\ tree'[s] = tree[s]]_vars

\* A note has been written while the tree holds another bundle, after a
\* rename.
C19_Witness ==
    /\ pc # "idle"
    /\ iter.outcome = "written"
    /\ iter.renamed
    /\ Cardinality(DOMAIN tree) >= 2

\* What a reader of the site sees of a content tree: slugs, identities,
\* publish dates, bodies and attachments.
Published(t) ==
    [s \in DOMAIN t |->
        [note_id |-> t[s].note_id, date |-> t[s].date, body |-> t[s].body,
         attachments |-> t[s].attachments]]

\* The tree one uninterrupted run leaves, from the tree the first run
\* started from, iterating in the same order.
Uninterrupted ==
    RunLoop(start_tree, CHOOSE ex \in load_existing_posts(start_tree) : TRUE,
            notes, scan_order)

\* C18: when the run after an interrupted run has finished its loop, the
\* content tree shows what one uninterrupted run would have left.
C18_CrashRecovery ==
    (runs = 2 /\ pc = "loop" /\ remaining = {})
        => Published(tree) = Published(Uninterrupted)

====
